---- MODULE Spec2Model ----
(***************************************************************************)
(* Model of platform_settings.py: the Version parser and renderer, the     *)
(* OsInfo os-release resolution, and the per-view settings reconciliation  *)
(* of PlatformSettingsEventListener.                                       *)
(*                                                                         *)
(* Strings are sequences of one-character strings.  A multi-letter token   *)
(* such as "ubuntu" stands for a run of letters (a word the regexes        *)
(* consume whole).                                                         *)
(***************************************************************************)
EXTENDS Integers, Sequences, FiniteSets, TLC

VARIABLES
    \* ---- Version(text=...) ----
    vtext,      \* the text handed to Version(text=...)
    vgen,       \* the components the text was built from (built: FALSE for a free text)
    vobj,       \* the Version object: _major, _minor, _patch, _label
    vstate,     \* "new" before the constructor ran, then "ok" or "VersionError"
    \* ---- OsInfo ----
    os_file,    \* /etc/os-release: [readable, lines]
    os_id,      \* OsInfo._id
    os_version, \* OsInfo._version
    os_last,    \* outcome of the last _parse_os_release: "none", "ok", "unreadable", "VersionError"
    os_prev,    \* _id, _version and the file's readability when the last _parse_os_release began
    os_reads,   \* number of changes made to the file so far
    \* ---- one view and PlatformSettingsEventListener ----
    store,        \* the view's dictionary-valued settings: concrete key -> stored value
    keys_setting, \* the setting platform_settings_keys: [set, list]
    live,         \* the view's plain settings: name -> value (None: not set)
    was_here,     \* the setting platform_settings_was_here (FALSE: not set, s.get gives False)
    listener,     \* whether a callback is registered under the tag "platform_settings"
    pending,      \* callbacks queued by sublime.set_timeout(on_change, 0) and not yet run
    notify_same,  \* the host: whether set() of an equal value calls the on_change callbacks
    pc,           \* "idle"; where the running check_settings is: "write", "finish", "attach";
                  \* "raised" while an exception of check_settings travels to the host
    active,       \* number of check_settings activations on the call stack
    frame,        \* the locals of the running check_settings
    last,         \* what the check_settings that returned last did
    ran,          \* whether a check_settings has returned
    events        \* lifecycle events and outside changes so far

versionVars == <<vtext, vgen, vobj, vstate>>
osVars == <<os_file, os_id, os_version, os_last, os_prev, os_reads>>
viewVars == <<store, keys_setting, live, was_here, listener, pending, notify_same,
              pc, active, frame, last, ran, events>>
vars == <<versionVars, osVars, viewVars>>

----------------------------------------------------------------------------
(* Bounds *)

\* longest free text handed to Version(text=...)
MaxTextLen == 3
\* longest digit run of a generated version component
MaxDigits == 2

----------------------------------------------------------------------------
(* Characters *)

\* Python None for an integer field (major=None, minor=None, patch=None)
None == -1

Digits == <<"0", "1", "2", "3", "4", "5", "6", "7", "8", "9">>

IsDigit(c) == \E i \in 1..10 : Digits[i] = c

DigitVal(c) == (CHOOSE i \in 1..10 : Digits[i] = c) - 1

Letters == {"a", "b", "ubuntu", "debian", "generic", "rolling"}

\* \w: letters, digits and the underscore
IsWord(c) == IsDigit(c) \/ c \in Letters \/ c = "_"

\* int(data) of a digit string
RECURSIVE int(_)
int(data) ==
    IF data = <<>> THEN 0
    ELSE 10 * int(SubSeq(data, 1, Len(data) - 1)) + DigitVal(data[Len(data)])

\* str(n) of a non-negative integer
RECURSIVE str(_)
str(n) ==
    IF n < 10 THEN <<Digits[n + 1]>>
    ELSE str(n \div 10) \o <<Digits[(n % 10) + 1]>>

\* end of the longest run of digits of text that starts at i (i - 1: no digit at i)
DigitRunEnd(text, i) ==
    CHOOSE j \in (i - 1)..Len(text) :
        /\ \A k \in i..j : IsDigit(text[k])
        /\ j = Len(text) \/ ~IsDigit(text[j + 1])

\* end of the longest run of word characters of text that starts at i
WordRunEnd(text, i) ==
    CHOOSE j \in (i - 1)..Len(text) :
        /\ \A k \in i..j : IsWord(text[k])
        /\ j = Len(text) \/ ~IsWord(text[j + 1])

----------------------------------------------------------------------------
(* Version *)

\* a group that did not take part in the match is <<>> (\d+ and \w+ never match empty)
NoMatch == [matched |-> FALSE, major |-> <<>>, minor |-> <<>>, patch |-> <<>>, label |-> <<>>]

\* the label group ([.-]?(?P<label>\w+))? at ls, after the numbers major, minor, patch
rx_label(major, minor, patch, text, ls) ==
    [matched |-> TRUE, major |-> major, minor |-> minor, patch |-> patch,
     label |-> IF ls <= Len(text) /\ IsWord(text[ls])
               THEN SubSeq(text, ls, WordRunEnd(text, ls)) ELSE <<>>]

\* [.-]? after position e: it takes a separator only when a word character follows it
rx_separator(major, minor, patch, text, e) ==
    rx_label(major, minor, patch, text,
             IF e + 2 <= Len(text) /\ text[e + 1] \in {".", "-"} /\ IsWord(text[e + 2])
             THEN e + 2 ELSE e + 1)

\* an optional group (\.\d+)? after position e: where it ends (e: it is not there)
rx_number_end(text, e) ==
    IF e + 2 <= Len(text) /\ text[e + 1] = "." /\ IsDigit(text[e + 2])
    THEN DigitRunEnd(text, e + 2) ELSE e

\* the groups after minor, which ends at e2
rx_after_minor(major, minor, text, e2, e3) ==
    rx_separator(major, minor, IF e3 > e2 THEN SubSeq(text, e2 + 2, e3) ELSE <<>>, text, e3)

\* the groups after major, which ends at e1
rx_after_major(major, text, e1, e2) ==
    rx_after_minor(major, IF e2 > e1 THEN SubSeq(text, e1 + 2, e2) ELSE <<>>, text,
                   e2, rx_number_end(text, e2))

\* the match that starts at the digit at s, major ending at e1
rx_from(text, s, e1) ==
    rx_after_major(SubSeq(text, s, e1), text, e1, rx_number_end(text, e1))

\* __version_rx.search(text): the leftmost match, every quantifier greedy.
\* Only the major group is mandatory, so the match starts at the first digit and
\* no later group makes an earlier one give characters back.
version_rx_search(text) ==
    IF \A i \in 1..Len(text) : ~IsDigit(text[i]) THEN NoMatch
    ELSE rx_from(text,
                 CHOOSE i \in 1..Len(text) :
                    IsDigit(text[i]) /\ \A k \in 1..(i - 1) : ~IsDigit(text[k]),
                 DigitRunEnd(text, CHOOSE i \in 1..Len(text) :
                    IsDigit(text[i]) /\ \A k \in 1..(i - 1) : ~IsDigit(text[k])))

\* get_int(data, default=0)
get_int(data) == IF data = <<>> THEN 0 ELSE int(data)

\* Version(): every field None (a None label is the empty sequence)
NewVersion == [major |-> None, minor |-> None, patch |-> None, label |-> <<>>]

\* the fields _parse sets from a match, VersionError without one
version_of_match(mo) ==
    IF mo.matched
    THEN [raised |-> FALSE,
          obj |-> [major |-> get_int(mo.major), minor |-> get_int(mo.minor),
                   patch |-> get_int(mo.patch), label |-> mo.label]]
    ELSE [raised |-> TRUE, obj |-> NewVersion]

\* Version._parse(text) on a fresh object: the object and whether VersionError was raised
Version_parse(text) == version_of_match(version_rx_search(text))

\* Version(text=text) that parses whatever text it is given
Version_init_always_parses(text) == Version_parse(text)

\* Version(text=text): _parse runs only for a non-empty text
Version_init(text) ==
    IF text # <<>> THEN Version_parse(text)
    ELSE [raised |-> FALSE, obj |-> NewVersion]

\* Version.full with each component printed on its own condition
full_not_nested(v) ==
    (IF v.major # None /\ v.major > 0 THEN str(v.major) ELSE <<>>)
    \o (IF v.minor # None /\ v.minor > 0 THEN <<".">> \o str(v.minor) ELSE <<>>)
    \o (IF v.patch # None /\ v.patch > 0 THEN <<".">> \o str(v.patch) ELSE <<>>)
    \o (IF v.label # <<>> THEN <<".">> \o v.label ELSE <<>>)

\* Version.full
full(v) ==
    IF v.major # None /\ v.major > 0
    THEN str(v.major) \o
         (IF v.minor # None /\ v.minor > 0
          THEN <<".">> \o str(v.minor) \o
               (IF v.patch # None /\ v.patch > 0
                THEN <<".">> \o str(v.patch) \o
                     (IF v.label # <<>> THEN <<".">> \o v.label ELSE <<>>)
                ELSE <<>>)
          ELSE <<>>)
    ELSE <<>>

----------------------------------------------------------------------------
(* Inputs of the Version specification *)

TextChars == {"0", "2", "3", ".", "-", "b", "+"}

SeqsUpTo(S, n) == UNION {[1..k -> S] : k \in 0..n}

FreeTexts == SeqsUpTo(TextChars, MaxTextLen)

GenDigits == {d \in SeqsUpTo({"0", "3"}, MaxDigits) : d # <<>>}

GenLabels == {<<"b">>, <<"b", "2">>, <<"_">>, <<"5">>, <<"0">>}

NoGen == [built |-> FALSE, major |-> <<>>, minor |-> <<>>, patch |-> <<>>,
          sep |-> <<>>, label |-> <<>>]

\* component choices whose concatenation reads back as the same components:
\* patch needs minor, a separator needs a label, a label written without a
\* separator does not start with a digit, and a label written after "." starts
\* with a digit only when minor and patch are both there
Generated ==
    {g \in [built : {TRUE}, major : GenDigits, minor : GenDigits \cup {<<>>},
            patch : GenDigits \cup {<<>>}, sep : {<<>>, <<".">>, <<"-">>},
            label : GenLabels \cup {<<>>}] :
        /\ g.patch # <<>> => g.minor # <<>>
        /\ g.sep # <<>> => g.label # <<>>
        /\ (g.label # <<>> /\ g.sep = <<>>) => ~IsDigit(g.label[1])
        /\ (g.label # <<>> /\ g.sep = <<".">> /\ IsDigit(g.label[1])) => g.patch # <<>>}

\* the version string major[.minor[.patch]][label] of the components
TextOf(g) ==
    g.major \o (IF g.minor = <<>> THEN <<>> ELSE <<".">> \o g.minor)
            \o (IF g.patch = <<>> THEN <<>> ELSE <<".">> \o g.patch)
            \o g.sep \o g.label

VersionInit ==
    /\ \/ \E g \in Generated : vgen = g /\ vtext = TextOf(g)
       \/ \E t \in FreeTexts : vgen = NoGen /\ vtext = t
    /\ vobj = NewVersion
    /\ vstate = "new"

\* v = Version(text=vtext)
NewVersionFromText ==
    /\ vstate = "new"
    /\ \E r \in {Version_init(vtext)} :
          /\ vobj' = r.obj
          /\ vstate' = IF r.raised THEN "VersionError" ELSE "ok"
    /\ UNCHANGED <<vtext, vgen, osVars, viewVars>>

----------------------------------------------------------------------------
(* OsInfo *)

\* longest /etc/os-release, in lines
MaxLines == 2
\* how often the file changes between readable and unreadable
MaxToggles == 2

\* a str field that may be None
NoneStr == [none |-> TRUE, s |-> <<>>]

Some(s) == [none |-> FALSE, s |-> s]

\* the keys value_rx accepts ([A-Z0-9_]+), one token each
KeyTokens == {"ID", "ID_LIKE", "VERSION_ID", "NAME"}

Quotes == {"\"", "'"}

\* index of the first token of line at or after i that is not a blank (Len + 1: none)
SkipBlanks(line, i) ==
    CHOOSE j \in i..(Len(line) + 1) :
        /\ \A k \in i..(j - 1) : line[k] = " "
        /\ j = Len(line) + 1 \/ line[j] # " "

\* str.strip() of the tokens i.. of line
Strip(line, i) ==
    LET a == SkipBlanks(line, i)
        b == CHOOSE j \in (a - 1)..Len(line) :
                /\ \A k \in (j + 1)..Len(line) : line[k] = " "
                /\ j = a - 1 \/ line[j] # " "
    IN  SubSeq(line, a, b)

\* quote_rx: a value wrapped in one pair of matching quotes loses them
Unquote(val) ==
    IF Len(val) >= 2 /\ val[1] \in Quotes /\ val[Len(val)] = val[1]
    THEN SubSeq(val, 2, Len(val) - 1)
    ELSE val

NoLine == [matched |-> FALSE, key |-> "", val |-> <<>>]

\* the rest of value_rx after the key at k: optional blanks end at e, then "=" and the value
line_after_key(line, k, e) ==
    IF e <= Len(line) /\ line[e] = "="
    THEN [matched |-> TRUE, key |-> line[k], val |-> Unquote(Strip(line, e + 1))]
    ELSE NoLine

\* value_rx from the first token k that is not a blank: a key must be there
line_from(line, k) ==
    IF k <= Len(line) /\ line[k] \in KeyTokens
    THEN line_after_key(line, k, SkipBlanks(line, k + 1))
    ELSE NoLine

\* value_rx.match(line) and the value's strip() and unquoting:
\* optional blanks, a key, optional blanks, "=", then the value
ParseLine(line) == line_from(line, SkipBlanks(line, 1))

\* os_release_data[key] = val when the line matched
store_line(data, mo) ==
    IF mo.matched
    THEN [k \in DOMAIN data \cup {mo.key} |-> IF k = mo.key THEN mo.val ELSE data[k]]
    ELSE data

\* the loop over the lines, in order
RECURSIVE ReadLines(_, _)
ReadLines(lines, data) ==
    IF lines = <<>> THEN data
    ELSE ReadLines(Tail(lines), store_line(data, ParseLine(Head(lines))))

\* os_release_data.get(key)
DataGet(data, key) == IF key \in DOMAIN data THEN Some(data[key]) ELSE NoneStr

EmptyDict == [k \in {} |-> <<>>]

\* the fallback taken only for a missing ID
fallback_missing_only(id, like) == IF id.none THEN like ELSE id

\* if self._id is None or self._id == "generic": self._id = os_release_data.get("ID_LIKE")
fallback(id, like) == IF id.none \/ id.s = <<"generic">> THEN like ELSE id

\* the identifier: ID, or ID_LIKE when ID is missing or "generic"
ResolveId(data) == fallback(DataGet(data, "ID"), DataGet(data, "ID_LIKE"))

\* self._version = Version(text=version), whose VersionError leaves the call
version_set(id, version, made) ==
    IF made.raised THEN [id |-> id, version |-> version, ended |-> "VersionError"]
    ELSE [id |-> id, version |-> made.obj, ended |-> "ok"]

\* if version: self._version = Version(text=version)
version_id_read(id, version, ver) ==
    IF ver.none \/ ver.s = <<>> THEN [id |-> id, version |-> version, ended |-> "ok"]
    ELSE version_set(id, version, Version_init(ver.s))

\* the assignments after the file was read
os_release_read(data, version) ==
    version_id_read(ResolveId(data), version, DataGet(data, "VERSION_ID"))

\* OsInfo._parse_os_release with the file as it is: the new _id and _version and how
\* the call ended.  An OSError of open() is swallowed; a VersionError of
\* Version(text=version) leaves the call after _id was assigned.
parse_os_release(file, id, version) ==
    IF ~file.readable
    THEN [id |-> id, version |-> version, ended |-> "unreadable"]
    ELSE os_release_read(ReadLines(file.lines, EmptyDict), version)

OsLines ==
    {<<"ID", "=", "ubuntu">>,
     <<"ID", "=", "generic">>,
     <<"ID", "=", "\"", "generic", "\"">>,
     <<" ", "ID", " ", "=", " ", "'", "debian", "'", " ">>,
     <<"ID", "=", "'", "generic", "\"">>,
     <<"ID", "=">>,
     <<"ID_LIKE", "=", "debian">>,
     <<"ID_LIKE", "=", "\"", "ubuntu", "\"">>,
     <<"#", "ID", "=", "debian">>,
     <<"id", "=", "debian">>,
     <<"ID", "debian">>,
     <<"VERSION_ID", "=", "\"", "2", "0", ".", "0", "4", "\"">>,
     <<"VERSION_ID", "=", "rolling">>,
     <<"NAME", "=", "ubuntu">>}

OsInit ==
    /\ \E ls \in SeqsUpTo(OsLines, MaxLines), r \in BOOLEAN :
          os_file = [readable |-> r, lines |-> ls]
    /\ os_id = Some(<<"unknown">>)
    /\ os_version = NewVersion
    /\ os_last = "none"
    /\ os_prev = [id |-> Some(<<"unknown">>), version |-> NewVersion, readable |-> FALSE]
    /\ os_reads = 0

\* OsInfo.refresh(), and the call of _parse_os_release that ends __init__
refresh ==
    /\ \E r \in {parse_os_release(os_file, os_id, os_version)} :
          /\ os_id' = r.id
          /\ os_version' = r.version
          /\ os_last' = r.ended
    /\ os_prev' = [id |-> os_id, version |-> os_version, readable |-> os_file.readable]
    /\ UNCHANGED <<os_file, os_reads, versionVars, viewVars>>

\* the host makes /etc/os-release unreadable, or readable again
ToggleReadable ==
    /\ os_reads < MaxToggles
    /\ os_file' = [os_file EXCEPT !.readable = ~@]
    /\ os_reads' = os_reads + 1
    /\ UNCHANGED <<os_id, os_version, os_last, os_prev, versionVars, viewVars>>

OsIdle ==
    /\ os_file = [readable |-> FALSE, lines |-> <<>>]
    /\ os_id = Some(<<"unknown">>)
    /\ os_version = NewVersion
    /\ os_last = "none"
    /\ os_prev = [id |-> Some(<<"unknown">>), version |-> NewVersion, readable |-> FALSE]
    /\ os_reads = 0

VersionIdle ==
    /\ vtext = <<>>
    /\ vgen = NoGen
    /\ vobj = NewVersion
    /\ vstate = "new"

----------------------------------------------------------------------------
(* The host of the view *)

\* lifecycle events and outside changes of one behaviour
MaxEvents == 2

\* sublime.platform()
platform == "linux"

\* socket.gethostname(), split at the dots
gethostname == <<"Host", "lan">>

\* str.casefold() of the host names in use
casefold(name) == IF name = "Host" THEN "host" ELSE name

\* socket.gethostname().split('.')[0].casefold()
hostname == casefold(gethostname[1])

\* OsInfo._get_subsys(): the environment is the set of variable names
get_subsys(type, environ) ==
    IF type = "darwin" THEN "none"
    ELSE IF type = "linux" THEN (IF "WSLENV" \in environ THEN "wsl" ELSE "none")
    ELSE IF type = "windows" /\ "BASH_ENV" \in environ
         THEN (IF "MSYSTEM" \in environ THEN "msys2" ELSE "cygwin")
    ELSE "none"

\* type(self).os_info.subsys on this host
os_subsys == get_subsys(platform, {"HOME", "PATH"})

----------------------------------------------------------------------------
(* Settings reconciliation *)

\* a key template is the sequence of its pieces, a placeholder being one piece
default_keys ==
    << <<"user_", "${platform}">>,
       <<"${platform}">>,
       <<"${platform}", "_", "${hostname}">>,
       <<"${hostname}", "_", "${os_subsys}">>,
       <<"${hostname}">> >>

\* the three key.replace(...) calls on one template
RECURSIVE interpolate(_)
interpolate(template) ==
    IF template = <<>> THEN ""
    ELSE LET piece == Head(template)
         IN  (IF piece = "${platform}" THEN platform
              ELSE IF piece = "${hostname}" THEN hostname
              ELSE IF piece = "${os_subsys}" THEN os_subsys
              ELSE piece) \o interpolate(Tail(template))

\* keys = s.get("platform_settings_keys", default_keys); if not keys: keys = default_keys
configured_keys(setting) ==
    IF ~setting.set \/ setting.list = <<>> THEN default_keys ELSE setting.list

\* the concrete keys, in the order of the templates
concrete_keys(setting) ==
    LET keys == configured_keys(setting)
    IN  [i \in 1..Len(keys) |-> interpolate(keys[i])]

NoDict == [n \in {} |-> 0]

Absent == [kind |-> "absent", d |-> NoDict]

\* s.get(key, {}) of a key of the store
s_get(st, key) == IF key \in DOMAIN st THEN st[key] ELSE Absent

\* s.get(key, {}) without the "or {}": a stored null reaches dict.update
fetch_without_or(st, key) ==
    LET v == s_get(st, key)
    IN  IF v.kind = "dict" THEN [isdict |-> TRUE, d |-> v.d]
        ELSE IF v.kind = "absent" THEN [isdict |-> TRUE, d |-> NoDict]
        ELSE [isdict |-> FALSE, d |-> NoDict]

\* s.get(key, {}) or {}: a missing key and every falsy value give {}; a truthy
\* value that is no dictionary is handed on as it is
fetch(st, key) ==
    LET v == s_get(st, key)
    IN  IF v.kind = "dict" THEN [isdict |-> TRUE, d |-> v.d]
        ELSE IF v.kind \in {"absent", "null"} THEN [isdict |-> TRUE, d |-> NoDict]
        ELSE [isdict |-> FALSE, d |-> NoDict]

\* dict.update that keeps the entries the accumulator already has
update_keeps_old(acc, d) ==
    [n \in DOMAIN acc \cup DOMAIN d |-> IF n \in DOMAIN acc THEN acc[n] ELSE d[n]]

\* platform_settings.update(d)
update(acc, d) ==
    [n \in DOMAIN acc \cup DOMAIN d |-> IF n \in DOMAIN d THEN d[n] ELSE acc[n]]

\* the loop over the keys: platform_settings, or the TypeError of update() on a
\* value that is no dictionary
RECURSIVE merge(_, _, _)
merge(st, keys, acc) ==
    IF keys = <<>> THEN [raised |-> FALSE, d |-> acc]
    ELSE LET got == fetch(st, Head(keys))
         IN  IF got.isdict THEN merge(st, Tail(keys), update(acc, got.d))
             ELSE [raised |-> TRUE, d |-> acc]

\* the test of the flag without its "not"
first_run_inverted(first, flag) == first \/ flag

\* if not first: first = not s.get("platform_settings_was_here", False)
first_run(first, flag) == first \/ ~flag

\* a run that leaves the listener registered whatever first is
keep_listener(first, registered) == registered

\* if not first: s.clear_on_change("platform_settings")
clear_on_change(first, registered) == IF ~first THEN FALSE ELSE registered

\* a write of every merged name, changed or not
always_write(current, value) == TRUE

\* if current != value
needs_write(current, value) == current # value

\* a callback that runs check_settings inside the notification
on_change_called_directly(queued, depth) == [pending |-> queued, active |-> depth + 1]

\* lambda: sublime.set_timeout(on_change, 0): the callback only queues on_change
on_change_lambda(queued, depth) == [pending |-> queued + 1, active |-> depth]

\* what s.set() does to the queue and the call stack: the host calls the
\* registered callback when the value changed, or on every set (notify_same)
s_set_notifies(changed) ==
    IF listener /\ (changed \/ notify_same)
    THEN on_change_lambda(pending, active)
    ELSE [pending |-> pending, active |-> active]

NoFrame == [arg_first |-> FALSE, first |-> FALSE, keys |-> <<>>, merged |-> NoDict,
            todo |-> {}, live0 |-> <<>>, written |-> {}, sets |-> 0, fired |-> 0]

NoRun == [first |-> FALSE, agreed |-> FALSE, names |-> {}, written |-> {}, sets |-> 0,
          fired |-> 0]

\* whether the plain settings already hold every merged value
Agrees(settings, merged) == \A n \in DOMAIN merged : settings[n] = merged[n]

\* check_settings(view, first) up to the end of the merge loop
check_settings(first_arg) ==
    LET keys   == concrete_keys(keys_setting)
        first  == first_run(first_arg, was_here)
        merged == merge(store, keys, NoDict)
    IN  /\ pc = "idle"
        /\ listener' = clear_on_change(first, listener)
        /\ IF merged.raised
           THEN /\ pc' = "raised"
                /\ UNCHANGED <<active, frame>>
           ELSE /\ frame' = [arg_first |-> first_arg, first |-> first, keys |-> keys,
                             merged |-> merged.d, todo |-> DOMAIN merged.d, live0 |-> live,
                             written |-> {}, sets |-> 0, fired |-> 0]
                /\ pc' = IF DOMAIN merged.d = {} THEN "finish" ELSE "write"
                /\ active' = active + 1
        /\ UNCHANGED <<store, keys_setting, live, was_here, notify_same, last, ran>>

\* one pass of "for key in platform_settings"; the order of the names is the
\* insertion order of the stored dictionaries, which the store does not fix
write_step ==
    /\ pc = "write"
    /\ \E key \in frame.todo :
          LET current == live[key]
              value   == frame.merged[key]
              wr      == needs_write(current, value)
              after   == IF wr THEN s_set_notifies(current # value)
                         ELSE [pending |-> pending, active |-> active]
          IN  /\ live' = IF wr THEN [live EXCEPT ![key] = value] ELSE live
              /\ pending' = after.pending
              /\ active' = after.active
              /\ frame' = [frame EXCEPT !.todo = @ \ {key},
                                        !.written = IF wr THEN @ \cup {key} ELSE @,
                                        !.sets = IF wr THEN @ + 1 ELSE @,
                                        !.fired = @ + (after.pending - pending)]
              /\ pc' = IF frame.todo = {key} THEN "finish" ELSE "write"
    /\ UNCHANGED <<store, keys_setting, was_here, listener, notify_same, last, ran,
                   events, versionVars, osVars>>

\* s.set("platform_settings_was_here", True)
set_was_here ==
    /\ pc = "finish"
    /\ LET after == s_set_notifies(~was_here)
       IN  /\ pending' = after.pending
           /\ active' = after.active
           /\ frame' = [frame EXCEPT !.sets = @ + 1,
                                     !.fired = @ + (after.pending - pending)]
    /\ was_here' = TRUE
    /\ pc' = "attach"
    /\ UNCHANGED <<store, keys_setting, live, listener, notify_same, last, ran, events,
                   versionVars, osVars>>

\* s.add_on_change("platform_settings", lambda: ...), and the return: a callback
\* registered under the same tag takes the place of the one that was there
add_on_change ==
    /\ pc = "attach"
    /\ listener' = TRUE
    /\ active' = active - 1
    /\ last' = [first |-> frame.first,
                agreed |-> Agrees(frame.live0, frame.merged),
                names |-> DOMAIN frame.merged,
                written |-> frame.written,
                sets |-> frame.sets,
                fired |-> frame.fired]
    /\ pc' = "idle"
    /\ frame' = NoFrame
    /\ ran' = TRUE
    /\ UNCHANGED <<store, keys_setting, live, was_here, pending, notify_same, events,
                   versionVars, osVars>>

on_activated ==
    /\ events < MaxEvents
    /\ events' = events + 1
    /\ check_settings(FALSE)
    /\ UNCHANGED <<pending, versionVars, osVars>>

on_new ==
    /\ events < MaxEvents
    /\ events' = events + 1
    /\ check_settings(TRUE)
    /\ UNCHANGED <<pending, versionVars, osVars>>

on_load ==
    /\ events < MaxEvents
    /\ events' = events + 1
    /\ check_settings(TRUE)
    /\ UNCHANGED <<pending, versionVars, osVars>>

\* the TypeError of update() leaves the handler and the host reports it
exception_reaches_host ==
    /\ pc = "raised"
    /\ pc' = "idle"
    /\ UNCHANGED <<store, keys_setting, live, was_here, listener, pending, notify_same,
                   active, frame, last, ran, events, versionVars, osVars>>

\* the event loop runs a queued on_change: self.check_settings(view)
on_change ==
    /\ pending > 0
    /\ pending' = pending - 1
    /\ check_settings(FALSE)
    /\ UNCHANGED <<events, versionVars, osVars>>

----------------------------------------------------------------------------
(* The view's settings and what changes them from outside *)

SettingNames == {"x", "y"}

\* the values an outside change gives a plain setting (None: it erases it)
OutsideValues == {None, 3}

Dicts ==
    {NoDict,
     [n \in {"x", "y"} |-> IF n = "x" THEN 1 ELSE 2],
     [n \in {"x"} |-> 3],
     [n \in {"y"} |-> 1]}

\* what a concrete key may hold: nothing, a falsy value, a truthy value that is
\* no dictionary, or a dictionary
StoredValues ==
    {Absent, [kind |-> "null", d |-> NoDict], [kind |-> "other", d |-> NoDict]}
    \cup {[kind |-> "dict", d |-> d] : d \in Dicts}

StoreKeys == {"linux", "host"}

\* what an outside change stores under a concrete key
OutsideStored ==
    {Absent, [kind |-> "other", d |-> NoDict], [kind |-> "dict", d |-> [n \in {"y"} |-> 1]]}

KeyLists ==
    { <<>>,
      << <<"${hostname}">>, <<"${platform}">> >>,
      << <<"${platform}">>, <<"${hostname}">>, <<"${platform}">> >>,
      << <<"custom">>, <<"${platform}">> >> }

ViewInit ==
    /\ store \in [StoreKeys -> StoredValues]
    /\ keys_setting \in {[set |-> FALSE, list |-> <<>>]} \cup {[set |-> TRUE, list |-> l] : l \in KeyLists}
    /\ live \in [SettingNames -> {None, 1, 2}]
    /\ was_here = FALSE
    /\ listener = FALSE
    /\ pending = 0
    /\ notify_same \in BOOLEAN
    /\ pc = "idle"
    /\ active = 0
    /\ frame = NoFrame
    /\ last = NoRun
    /\ ran = FALSE
    /\ events = 0

\* a view on which outside changes are followed: both keys of the default list
\* that the store knows hold a dictionary
LifeInit ==
    /\ store \in {[k \in StoreKeys |->
                     IF k = "linux"
                     THEN [kind |-> "dict", d |-> [n \in {"x", "y"} |-> IF n = "x" THEN 1 ELSE 2]]
                     ELSE h] :
                  h \in {[kind |-> "dict", d |-> [n \in {"x"} |-> 3]], [kind |-> "null", d |-> NoDict]}}
    /\ keys_setting \in {[set |-> FALSE, list |-> <<>>],
                         [set |-> TRUE, list |-> << <<"${hostname}">>, <<"${platform}">> >>]}
    /\ live \in {[n \in SettingNames |-> None], [n \in SettingNames |-> 2]}
    /\ was_here = FALSE
    /\ listener = FALSE
    /\ pending = 0
    /\ notify_same \in BOOLEAN
    /\ pc = "idle"
    /\ active = 0
    /\ frame = NoFrame
    /\ last = NoRun
    /\ ran = FALSE
    /\ events = 0

\* the user or another plugin sets or erases a plain setting of the view
change_setting ==
    /\ pc = "idle"
    /\ events < MaxEvents
    /\ events' = events + 1
    /\ \E n \in SettingNames, v \in OutsideValues :
          /\ live' = [live EXCEPT ![n] = v]
          /\ pending' = s_set_notifies(live[n] # v).pending
    /\ UNCHANGED <<store, keys_setting, was_here, listener, notify_same, pc, active,
                   frame, last, ran, versionVars, osVars>>

\* the user or another plugin changes what a concrete key holds
change_dict ==
    /\ pc = "idle"
    /\ events < MaxEvents
    /\ events' = events + 1
    /\ \E k \in StoreKeys, v \in OutsideStored :
          /\ store' = [store EXCEPT ![k] = v]
          /\ pending' = s_set_notifies(store[k] # v).pending
    /\ UNCHANGED <<keys_setting, live, was_here, listener, notify_same, pc, active,
                   frame, last, ran, versionVars, osVars>>

ViewIdle ==
    /\ store = [k \in StoreKeys |-> Absent]
    /\ keys_setting = [set |-> FALSE, list |-> <<>>]
    /\ live = [n \in SettingNames |-> None]
    /\ was_here = FALSE
    /\ listener = FALSE
    /\ pending = 0
    /\ notify_same = FALSE
    /\ pc = "idle"
    /\ active = 0
    /\ frame = NoFrame
    /\ last = NoRun
    /\ ran = FALSE
    /\ events = 0

----------------------------------------------------------------------------
(* Specifications *)

VersionNext == NewVersionFromText

VersionStart == VersionInit /\ OsIdle /\ ViewIdle

VersionSpec == VersionStart /\ [][VersionNext]_vars

OsNext == refresh \/ ToggleReadable

OsStart == OsInit /\ VersionIdle /\ ViewIdle

OsSpec == OsStart /\ [][OsNext]_vars

Init == ViewInit /\ VersionIdle /\ OsIdle

\* the lifecycle events of a view, the steps of check_settings and the event loop
Next ==
    \/ on_activated
    \/ on_new
    \/ on_load
    \/ on_change
    \/ write_step
    \/ set_was_here
    \/ add_on_change
    \/ exception_reaches_host

Spec == Init /\ [][Next]_vars

\* the same with changes of the settings from outside
LifeNext ==
    \/ Next
    \/ change_setting
    \/ change_dict

\* a handler that started runs to its end, and the event loop runs every queued callback
LifeStart == LifeInit /\ VersionIdle /\ OsIdle

FairSpec ==
    /\ LifeStart
    /\ [][LifeNext]_vars
    /\ WF_vars(on_change)
    /\ WF_vars(write_step)
    /\ WF_vars(set_was_here)
    /\ WF_vars(add_on_change)
    /\ WF_vars(exception_reaches_host)

----------------------------------------------------------------------------
(* Claims about Version *)

IsZero(d) == \A i \in 1..Len(d) : d[i] = "0"

\* a digit string without its leading zeros
StripZeros(d) ==
    LET first == CHOOSE i \in 1..Len(d) : d[i] # "0" /\ \A k \in 1..(i - 1) : d[k] = "0"
    IN  SubSeq(d, first, Len(d))

\* truncation at the first zero: what the components of a version string render as
Rendering(g) ==
    IF IsZero(g.major) THEN <<>>
    ELSE StripZeros(g.major) \o
         (IF IsZero(g.minor) THEN <<>>
          ELSE <<".">> \o StripZeros(g.minor) \o
               (IF IsZero(g.patch) THEN <<>>
                ELSE <<".">> \o StripZeros(g.patch) \o
                     (IF g.label = <<>> THEN <<>> ELSE <<".">> \o g.label)))

\* C4: for a version string major[.minor[.patch]][label], Version(text=...).full is
\* the rendering truncated at the first zero component: nothing when major is 0,
\* .minor only when minor > 0, .patch only when minor and patch > 0, .label only
\* when all three are > 0 and a label is there; leading zeros are dropped.
C4_ParseThenRender ==
    (vstate # "new" /\ vgen.built) => (vstate = "ok" /\ full(vobj) = Rendering(vgen))

\* a string such as 3.0.3 or 03.00.30.b was parsed: minor is zero, patch is not
C4_Witness ==
    /\ vstate = "ok" /\ vgen.built
    /\ ~IsZero(vgen.major) /\ vgen.minor # <<>> /\ IsZero(vgen.minor) /\ ~IsZero(vgen.patch)
    /\ full(vobj) = StripZeros(vgen.major)

HasDigit(text) == \E i \in 1..Len(text) : IsDigit(text[i])

----------------------------------------------------------------------------
(* Claims about OsInfo *)

\* the value of the last line of the file that sets key, None when no line does
Field(lines, key) ==
    LET at == {i \in 1..Len(lines) : ParseLine(lines[i]).matched /\ ParseLine(lines[i]).key = key}
    IN  IF at = {} THEN NoneStr
        ELSE Some(ParseLine(lines[CHOOSE i \in at : \A k \in at : k <= i]).val)

\* C7: after _parse_os_release read a readable file the identifier is the ID
\* field when ID is there and is not "generic", and the ID_LIKE field otherwise
\* (the last occurrence of a key wins); with an unreadable file the call returns
\* without an error and leaves the identifier and the version as they were.
C7_IdResolution ==
    os_last # "none" =>
        IF os_prev.readable
        THEN LET id == Field(os_file.lines, "ID")
             IN  os_id = IF ~id.none /\ id.s # <<"generic">> THEN id
                         ELSE Field(os_file.lines, "ID_LIKE")
        ELSE /\ os_last = "unreadable"
             /\ os_id = os_prev.id
             /\ os_version = os_prev.version

\* a readable file with ID=generic and an ID_LIKE line was read
C7_Witness ==
    /\ os_last = "ok" /\ os_prev.readable
    /\ Field(os_file.lines, "ID") = Some(<<"generic">>)
    /\ ~Field(os_file.lines, "ID_LIKE").none
    /\ os_id = Field(os_file.lines, "ID_LIKE")

----------------------------------------------------------------------------
(* Claims about the reconciliation *)

\* the dictionary stored under a concrete key, empty when there is none
StoredDict(key) ==
    IF s_get(store, key).kind = "dict" THEN s_get(store, key).d ELSE NoDict

Running == pc \in {"write", "finish", "attach"}

\* C1: the merged dictionary holds exactly the names that occur in the
\* dictionary of at least one key of the list, each with the value given by the
\* last key of the list whose dictionary holds the name.
C1_PriorityOrder ==
    Running =>
        LET keys == frame.keys
            holds(n) == {i \in 1..Len(keys) : n \in DOMAIN StoredDict(keys[i])}
        IN  /\ DOMAIN frame.merged = {n \in SettingNames : holds(n) # {}}
            /\ \A n \in DOMAIN frame.merged :
                  LET i == CHOOSE i \in holds(n) : \A k \in holds(n) : k <= i
                  IN  frame.merged[n] = StoredDict(keys[i])[n]

\* an earlier key holds {x: 1, y: 2}, a later one {x: 3}, the merge is {x: 3, y: 2}
C1_Witness ==
    /\ Running
    /\ \E i, j \in 1..Len(frame.keys) :
          /\ i < j
          /\ StoredDict(frame.keys[i]) = [n \in {"x", "y"} |-> IF n = "x" THEN 1 ELSE 2]
          /\ StoredDict(frame.keys[j]) = [n \in {"x"} |-> 3]
    /\ frame.merged = [n \in {"x", "y"} |-> IF n = "x" THEN 3 ELSE 2]

\* C2 as stated: a run on a view whose settings already equal the merge makes no
\* write to the settings at all.
C2_AsStated == (ran /\ last.agreed) => last.sets = 0

\* C2 amended: a run on a view whose settings already equal the merge writes none
\* of the merged names and leaves them as they were; its one write is
\* platform_settings_was_here = True.
C2_NoMergedWrites ==
    /\ (Running /\ Agrees(frame.live0, frame.merged)) =>
          (frame.written = {} /\ live = frame.live0)
    /\ (pc = "attach" /\ Agrees(frame.live0, frame.merged)) => frame.sets = 1
    /\ (ran /\ last.agreed) => (last.written = {} /\ last.sets = 1)

\* a run whose merge was not empty found every value in place and returned
C2_Witness == ran /\ pc = "idle" /\ last.agreed /\ last.names # {} /\ last.sets = 1

\* C3: a write inside a running check_settings starts no other check_settings:
\* the notification only queues a callback, so at most one activation is on the
\* call stack and a queued one starts only when none is running.
C3_NoReentrancy ==
    /\ active <= 1
    /\ active = 1 <=> Running

\* a write of the running check_settings has notified the listener
C3_Witness == Running /\ active = 1 /\ frame.fired > 0 /\ pending > 0

\* the merge of the keys of the list that hold a dictionary, the others left out
RECURSIVE MergeOfPresent(_, _)
MergeOfPresent(keys, acc) ==
    IF keys = <<>> THEN acc
    ELSE MergeOfPresent(Tail(keys),
                        IF s_get(store, Head(keys)).kind = "dict"
                        THEN update(acc, s_get(store, Head(keys)).d)
                        ELSE acc)

\* C6: a key with no stored dictionary (missing, or null) raises nothing, and the
\* merge and the names written are those of the key list without that key.
C6_MissingKeys ==
    LET keys == concrete_keys(keys_setting)
        m    == MergeOfPresent(keys, NoDict)
    IN  /\ pc = "raised" => \E i \in 1..Len(keys) : s_get(store, keys[i]).kind = "other"
        /\ Running => frame.merged = m
        /\ pc \in {"finish", "attach"} =>
              frame.written = {n \in DOMAIN m : frame.live0[n] # m[n]}

\* a run over a list with a missing key and a null key has merged and written
C6_Witness ==
    LET keys == concrete_keys(keys_setting)
    IN  /\ pc = "finish"
        /\ \E i \in 1..Len(keys) : s_get(store, keys[i]).kind = "absent"
        /\ \E i \in 1..Len(keys) : s_get(store, keys[i]).kind = "null"
        /\ frame.written # {}

\* C8: a run that skips clear_on_change finds no "platform_settings" listener
\* registered on the view.
C8_SkipOnlyWithoutListener == (Running /\ frame.first) => ~listener

\* C9: once the lifecycle events and outside changes have stopped, the queue of
\* deferred reconciliations empties and stays empty.
C9_Quiescence == <>[](pending = 0 /\ pc = "idle")

\* a write of check_settings itself has queued a reconciliation
C9_Witness == pc = "idle" /\ ran /\ last.fired > 0 /\ pending > 0

\* C10: platform_settings_was_here is unset until a reconciliation has returned
\* and true from then on, so a later run called without first=True clears the
\* listener.
C10_FlagLifecycle ==
    /\ (~ran /\ pc # "attach") => ~was_here
    /\ ran => was_here
    /\ (ran /\ Running /\ ~frame.arg_first) => ~frame.first

\* a run after the first, called without first=True, took the detach path
C10_Witness == ran /\ was_here /\ Running /\ ~frame.arg_first /\ ~frame.first

====
